---- MODULE Spec2Model ----
(***************************************************************************)
(* EdgeSummon: the per-session conversation store (ChatRoomDurableObject,  *)
(* src/src/chatRoomDO.ts), the message classifier and the turn             *)
(* orchestrator (handleChatAPI / processMessage, src/src/textExtraction.ts)*)
(* and the follow-up context builder (src/src/llmClient.ts).               *)
(*                                                                         *)
(* Text is modelled as a sequence of runs [c, n]: the first n characters   *)
(* of c repeated for ever.  For a one-character c that is c written n      *)
(* times; for a literal of the source, n is the literal's length (or, once *)
(* a substring has cut it, the length of the prefix kept).                 *)
(* An optional field is <<>> when absent and <<v>> when present.           *)
(***************************************************************************)
EXTENDS Integers, Sequences, FiniteSets, TLC

----------------------------------------------------------------------------
(* Bounds of the model                                                     *)

MaxClock == 2

MaxOps == 2

----------------------------------------------------------------------------
(* Text                                                                    *)

None == <<>>

Some(v) == <<v>>

Min(a, b) == IF a < b THEN a ELSE b

Max(a, b) == IF a > b THEN a ELSE b

Rep(c, n) == IF n = 0 THEN <<>> ELSE <<[c |-> c, n |-> n]>>

Whitespace == {" ", "\t", "\n"}

RECURSIVE StrLen(_)
StrLen(s) == IF s = <<>> THEN 0 ELSE Head(s).n + StrLen(Tail(s))

\* the character at 1-based position i, "" past the end
RECURSIVE CharAt(_, _)
CharAt(s, i) ==
    IF s = <<>> THEN ""
    ELSE IF i <= Head(s).n THEN Head(s).c
    ELSE CharAt(Tail(s), i - Head(s).n)

\* String.prototype.trim
RECURSIVE TrimStart(_)
TrimStart(s) ==
    IF s = <<>> THEN <<>>
    ELSE IF Head(s).c \in Whitespace THEN TrimStart(Tail(s))
    ELSE s

RECURSIVE TrimEnd(_)
TrimEnd(s) ==
    IF s = <<>> THEN <<>>
    ELSE IF s[Len(s)].c \in Whitespace THEN TrimEnd(SubSeq(s, 1, Len(s) - 1))
    ELSE s

Trim(s) == TrimEnd(TrimStart(s))

\* String.prototype.substring(0, k)
RECURSIVE Substring0(_, _)
Substring0(s, k) ==
    IF s = <<>> \/ k <= 0 THEN <<>>
    ELSE IF Head(s).n >= k THEN <<[c |-> Head(s).c, n |-> k]>>
    ELSE <<Head(s)>> \o Substring0(Tail(s), k - Head(s).n)

EndsWith(s, ch) == s # <<>> /\ s[Len(s)].c = ch

ToLower(ch) ==
    CASE ch = "H" -> "h"
      [] ch = "T" -> "t"
      [] ch = "P" -> "p"
      [] ch = "S" -> "s"
      [] OTHER -> ch

----------------------------------------------------------------------------
(* MessageClassifier                                                       *)

\* /^https?:\/\//i tested on the trimmed text
isURL(text) ==
    LET t == Trim(text)
        ch(i) == ToLower(CharAt(t, i))
    IN  /\ ch(1) = "h" /\ ch(2) = "t" /\ ch(3) = "t" /\ ch(4) = "p"
        /\ \/ ch(5) = ":" /\ ch(6) = "/" /\ ch(7) = "/"
           \/ ch(5) = "s" /\ ch(6) = ":" /\ ch(7) = "/" /\ ch(8) = "/"

SentenceEndingChars == {".", "!", "?"}

\* (trimmed.match(/[.!?]/g) || []).length
RECURSIVE CountSentenceEndings(_)
CountSentenceEndings(s) ==
    IF s = <<>> THEN 0
    ELSE (IF Head(s).c \in SentenceEndingChars THEN Head(s).n ELSE 0)
         + CountSentenceEndings(Tail(s))

ContentLengthThreshold == 200

SentenceEndingsThreshold == 3

\* (variant) the length is tested before the question mark
isLikelyContentLengthFirst(text) ==
    LET trimmed == Trim(text)
    IN  IF StrLen(trimmed) > ContentLengthThreshold THEN TRUE
        ELSE IF EndsWith(trimmed, "?") THEN FALSE
        ELSE IF CountSentenceEndings(trimmed) >= SentenceEndingsThreshold THEN TRUE
        ELSE FALSE

isLikelyContentToSummarize(text) ==
    LET trimmed == Trim(text)
    IN  IF EndsWith(trimmed, "?") THEN FALSE
        ELSE IF StrLen(trimmed) > ContentLengthThreshold THEN TRUE
        ELSE IF CountSentenceEndings(trimmed) >= SentenceEndingsThreshold THEN TRUE
        ELSE FALSE

determineMessageType(message) ==
    IF isURL(message) THEN "url"
    ELSE IF isLikelyContentToSummarize(message) THEN "content"
    ELSE "followup"

----------------------------------------------------------------------------
(* State                                                                   *)

Sessions == {"s1", "s2"}

Procs == {"p1", "p2"}

Clients == {"c1", "c2"}

Callers == Procs \cup Clients

VARIABLES
    now,             \* the wall clock read by new Date()
    inst,            \* per session: "none", "loading" or "ready" store object
    entries,         \* per session: this.entries of the store object
    createdAt,       \* per session: this.createdAt
    lastAccessedAt,  \* per session: this.lastAccessedAt
    stored,          \* per session: the record under key "state" in durable storage
    cleared,         \* per session: the object has handled a clear since it was constructed
    req,             \* per caller: its request to a store object, in flight or answered
    turn,            \* per worker request: the position and locals of handleChatAPI / processMessage
    cli,             \* per direct client: its last operation and the response to it
    nOps             \* operations the direct clients have issued so far

vars == <<now, inst, entries, createdAt, lastAccessedAt, stored, cleared, req, turn, cli, nOps>>

storeVars == <<inst, entries, createdAt, lastAccessedAt, stored, cleared>>

\* interface ConversationEntry
Entry(role, content, type, url, at) ==
    [role |-> role, content |-> content, type |-> type, url |-> url, createdAt |-> at]

BlankEntry == Entry("", <<>>, None, None, None)

\* interface StoredState
StoredState(s) ==
    [entries |-> entries[s], createdAt |-> createdAt[s], lastAccessedAt |-> lastAccessedAt[s]]

NoResp == [status |-> 0, count |-> 0, entries |-> <<>>, createdAt |-> 0, lastAccessedAt |-> 0]

Resp(status) == [NoResp EXCEPT !.status = status]

NoReq ==
    [op |-> "none", method |-> "", session |-> "", entry |-> BlankEntry, limit |-> None,
     phase |-> "none", snap |-> None, resp |-> NoResp]

Request(op, method, s, entry, limit) ==
    [op |-> op, method |-> method, session |-> s, entry |-> entry, limit |-> limit,
     phase |-> "sent", snap |-> None, resp |-> NoResp]

Ok(resp) == resp.status >= 200 /\ resp.status <= 299

----------------------------------------------------------------------------
(* ConversationStore: ChatRoomDurableObject                                *)

\* (variant) events are delivered while a storage operation is pending
GateAlwaysOpen(s) == TRUE

\* A storage operation of the object is pending: no other event is delivered to it
InputGateOpen(s) ==
    \A r \in Callers : ~(req[r].session = s /\ req[r].phase = "put")

\* some request to the object is waiting for it, being handled, or answered and not yet read
Busy(s) == \E r \in Callers : req[r].session = s

\* constructor, up to the call of blockConcurrencyWhile
Construct(s) ==
    /\ inst[s] = "none"
    /\ \E r \in Callers : req[r].session = s /\ req[r].phase = "sent"
    /\ inst' = [inst EXCEPT ![s] = "loading"]
    /\ entries' = [entries EXCEPT ![s] = <<>>]
    /\ createdAt' = [createdAt EXCEPT ![s] = now]
    /\ lastAccessedAt' = [lastAccessedAt EXCEPT ![s] = now]
    /\ cleared' = [cleared EXCEPT ![s] = FALSE]
    /\ UNCHANGED <<now, stored, req, turn, cli, nOps>>

\* the callback of blockConcurrencyWhile
Load(s) ==
    /\ inst[s] = "loading"
    /\ inst' = [inst EXCEPT ![s] = "ready"]
    /\ IF stored[s] # None
       THEN /\ entries' = [entries EXCEPT ![s] = stored[s][1].entries]
            /\ createdAt' = [createdAt EXCEPT ![s] = stored[s][1].createdAt]
            /\ lastAccessedAt' = [lastAccessedAt EXCEPT ![s] = stored[s][1].lastAccessedAt]
       ELSE UNCHANGED <<entries, createdAt, lastAccessedAt>>
    /\ UNCHANGED <<now, stored, cleared, req, turn, cli, nOps>>

\* (variant) the constructor loads without blockConcurrencyWhile
DeliveredWhileLoading(s) == inst[s] # "none" /\ InputGateOpen(s)

\* events are delivered to an object only after the constructor's blockConcurrencyWhile has ended
Delivered(s) == inst[s] = "ready" /\ InputGateOpen(s)

\* the runtime discards an idle object; its fields are gone
Evict(s) ==
    /\ inst[s] = "ready"
    /\ ~Busy(s)
    /\ inst' = [inst EXCEPT ![s] = "none"]
    /\ entries' = [entries EXCEPT ![s] = <<>>]
    /\ createdAt' = [createdAt EXCEPT ![s] = 0]
    /\ lastAccessedAt' = [lastAccessedAt EXCEPT ![s] = 0]
    /\ cleared' = [cleared EXCEPT ![s] = FALSE]
    /\ UNCHANGED <<now, stored, req, turn, cli, nOps>>

\* handleAppend up to `await request.json()`
AppendReceive(r) ==
    LET s == req[r].session IN
    /\ req[r].op = "append" /\ req[r].phase = "sent"
    /\ Delivered(s)
    /\ IF req[r].method # "POST"
       THEN req' = [req EXCEPT ![r].phase = "done", ![r].resp = Resp(405)]
       ELSE req' = [req EXCEPT ![r].phase = "body"]
    /\ UNCHANGED <<now, storeVars, turn, cli, nOps>>

ValidEntry(entry) == entry.role # "" /\ entry.content # <<>>

\* handleAppend from the validation to the call of storage.put in saveState
AppendPush(r) ==
    LET s == req[r].session
        entry == req[r].entry
        stamped == IF entry.createdAt = None THEN [entry EXCEPT !.createdAt = Some(now)] ELSE entry
    IN
    /\ req[r].op = "append" /\ req[r].phase = "body"
    /\ Delivered(s)
    /\ IF ~ValidEntry(entry)
       THEN /\ req' = [req EXCEPT ![r].phase = "done", ![r].resp = Resp(400)]
            /\ UNCHANGED storeVars
       ELSE /\ entries' = [entries EXCEPT ![s] = Append(@, stamped)]
            /\ lastAccessedAt' = [lastAccessedAt EXCEPT ![s] = now]
            /\ req' = [req EXCEPT ![r].phase = "put", ![r].entry = stamped,
                                  ![r].snap = Some([StoredState(s) EXCEPT
                                                      !.entries = Append(@, stamped),
                                                      !.lastAccessedAt = now])]
            /\ UNCHANGED <<inst, createdAt, stored, cleared>>
    /\ UNCHANGED <<now, turn, cli, nOps>>

DefaultLimit == 10

\* Array.prototype.slice(start)
Slice(seq, start) ==
    LET from == IF start < 0 THEN Max(Len(seq) + start, 0) ELSE Min(start, Len(seq))
    IN  SubSeq(seq, from + 1, Len(seq))

\* handleGetRecent to the call of storage.put in saveState
RecentReceive(r) ==
    LET s == req[r].session IN
    /\ req[r].op = "recent" /\ req[r].phase = "sent"
    /\ Delivered(s)
    /\ lastAccessedAt' = [lastAccessedAt EXCEPT ![s] = now]
    /\ req' = [req EXCEPT ![r].phase = "put",
                          ![r].snap = Some([StoredState(s) EXCEPT !.lastAccessedAt = now])]
    /\ UNCHANGED <<now, inst, entries, createdAt, stored, cleared, turn, cli, nOps>>

\* (variant) clear starts the session over: it also resets createdAt
ClearReceiveResets(r) ==
    LET s == req[r].session IN
    /\ req[r].op = "clear" /\ req[r].phase = "sent"
    /\ Delivered(s)
    /\ entries' = [entries EXCEPT ![s] = <<>>]
    /\ createdAt' = [createdAt EXCEPT ![s] = now]
    /\ lastAccessedAt' = [lastAccessedAt EXCEPT ![s] = now]
    /\ req' = [req EXCEPT ![r].phase = "put",
                          ![r].snap = Some([entries |-> <<>>, createdAt |-> now,
                                            lastAccessedAt |-> now])]
    /\ cleared' = [cleared EXCEPT ![s] = TRUE]
    /\ UNCHANGED <<now, inst, stored, turn, cli, nOps>>

\* handleClear to the call of storage.put in saveState
ClearReceive(r) ==
    LET s == req[r].session IN
    /\ req[r].op = "clear" /\ req[r].phase = "sent"
    /\ Delivered(s)
    /\ entries' = [entries EXCEPT ![s] = <<>>]
    /\ lastAccessedAt' = [lastAccessedAt EXCEPT ![s] = now]
    /\ req' = [req EXCEPT ![r].phase = "put",
                          ![r].snap = Some([StoredState(s) EXCEPT
                                              !.entries = <<>>, !.lastAccessedAt = now])]
    /\ cleared' = [cleared EXCEPT ![s] = TRUE]
    /\ UNCHANGED <<now, inst, createdAt, stored, turn, cli, nOps>>

\* handleGetStats
handleGetStats(r) ==
    LET s == req[r].session IN
    /\ req[r].op = "stats" /\ req[r].phase = "sent"
    /\ Delivered(s)
    /\ req' = [req EXCEPT ![r].phase = "done",
                          ![r].resp = [Resp(200) EXCEPT !.count = Len(entries[s]),
                                                        !.createdAt = createdAt[s],
                                                        !.lastAccessedAt = lastAccessedAt[s]]]
    /\ UNCHANGED <<now, storeVars, turn, cli, nOps>>

\* (variant) recent answers with the oldest entries: slice(0, limit)
AfterSaveOldest(r) ==
    LET s == req[r].session
        limit == IF req[r].limit = None THEN DefaultLimit ELSE req[r].limit[1]
    IN  CASE req[r].op = "append" -> [Resp(200) EXCEPT !.count = Len(entries[s])]
          [] req[r].op = "recent" ->
               [Resp(200) EXCEPT !.entries = SubSeq(entries[s], 1, Min(limit, Len(entries[s])))]
          [] OTHER -> Resp(200)

\* what the handler answers once `await this.saveState()` has returned
AfterSave(r) ==
    LET s == req[r].session
        limit == IF req[r].limit = None THEN DefaultLimit ELSE req[r].limit[1]
    IN  CASE req[r].op = "append" -> [Resp(200) EXCEPT !.count = Len(entries[s])]
          [] req[r].op = "recent" -> [Resp(200) EXCEPT !.entries = Slice(entries[s], -limit)]
          [] OTHER -> Resp(200)

\* (variant) the handler answers without its record having been written
PutOkUnsaved(r) ==
    /\ req[r].phase = "put"
    /\ req' = [req EXCEPT ![r].phase = "done", ![r].snap = None, ![r].resp = AfterSave(r)]
    /\ UNCHANGED <<now, storeVars, turn, cli, nOps>>

\* storage.put completes: the record is durable and the handler goes on to its response
PutOk(r) ==
    LET s == req[r].session IN
    /\ req[r].phase = "put"
    /\ stored' = [stored EXCEPT ![s] = req[r].snap]
    /\ req' = [req EXCEPT ![r].phase = "done", ![r].snap = None, ![r].resp = AfterSave(r)]
    /\ UNCHANGED <<now, inst, entries, createdAt, lastAccessedAt, cleared, turn, cli, nOps>>

\* storage.put rejects: the exception reaches the catch of fetch
PutFail(r) ==
    /\ req[r].phase = "put"
    /\ req' = [req EXCEPT ![r].phase = "done", ![r].snap = None, ![r].resp = Resp(500)]
    /\ UNCHANGED <<now, storeVars, turn, cli, nOps>>

\* the clock is read from the first request on
Started == nOps > 0 \/ \E p \in Procs : turn[p].pc # "idle"

Tick ==
    /\ Started
    /\ now < MaxClock
    /\ now' = now + 1
    /\ UNCHANGED <<storeVars, req, turn, cli, nOps>>

----------------------------------------------------------------------------
(* External collaborators: what a call can return                          *)

Lit(text, len) == <<[c |-> text, n |-> len]>>

MinExtractedLength == 50

\* fetchAndExtractText: a rejection with its message, or the extracted text
ExtractOutcomes ==
    { [ok |-> FALSE, text |-> Lit("Failed to fetch URL: ", 21) \o Lit("URL does not return HTML content", 32)],
      [ok |-> TRUE, text |-> <<>>],
      [ok |-> TRUE, text |-> Rep("x", 30)],
      [ok |-> TRUE, text |-> Rep(" ", 1) \o Rep("x", MinExtractedLength - 1) \o Rep(" ", 1)],
      [ok |-> TRUE, text |-> Rep("x", MinExtractedLength)] }

\* ai.run: a rejection or an unexpected format, or the raw response text
AiOutcomes ==
    { [ok |-> FALSE, text |-> <<>>],
      [ok |-> TRUE, text |-> Rep(" ", 1)],
      [ok |-> TRUE, text |-> Rep(" ", 1) \o Rep("r", 1)] }

SummaryError == Lit("Failed to generate summary. Please try again.", 45)

FollowupError == Lit("Failed to answer question. Please try again.", 44)

\* generateSummary / answerFollowup: the trimmed response, or the error thrown over
LlmResult(outcome, error) ==
    IF outcome.ok THEN [ok |-> TRUE, text |-> Trim(outcome.text)]
    ELSE [ok |-> FALSE, text |-> error]

ContextWindow == 5

UserContentLimit == 200

AssistantContentLimit == 300

\* `context.slice(-5)`
recentContext(context) == Slice(context, -ContextWindow)

\* (variant) the ellipsis is added from the limit on
ClipFromLimit(content, limit) ==
    Substring0(content, limit) \o (IF StrLen(content) >= limit THEN Rep(".", 3) ELSE <<>>)

\* `${content.substring(0, limit)}${content.length > limit ? "..." : ""}`
Clip(content, limit) ==
    Substring0(content, limit) \o (IF StrLen(content) > limit THEN Rep(".", 3) ELSE <<>>)

\* the body of the forEach of buildFollowupPrompt: the lines one entry adds to contextText
renderEntry(entry) ==
    IF entry.role = "user"
    THEN IF entry.type = Some("url-summary") /\ entry.url # None /\ entry.url[1] # <<>>
         THEN << Lit("User submitted URL: ", 20) \o entry.url[1] \o Rep("\n", 1) >>
         ELSE << Lit("User: ", 6) \o Clip(entry.content, UserContentLimit) \o Rep("\n", 1) >>
    ELSE IF entry.role = "assistant"
    THEN << Lit("Assistant: ", 11) \o Clip(entry.content, AssistantContentLimit) \o Rep("\n", 1) >>
    ELSE << >>

\* contextText as the sequence of its lines
RECURSIVE contextLines(_)
contextLines(selected) ==
    IF selected = <<>> THEN <<>> ELSE renderEntry(Head(selected)) \o contextLines(Tail(selected))

\* buildFollowupPrompt: the lines of the context and the current question between the
\* fixed texts of the template
buildFollowupPrompt(question, context) ==
    [head |-> Lit("You are EdgeSummon ... Previous conversation context:\n", 146),
     lines |-> contextLines(recentContext(context)),
     question |-> Lit("\n\nCurrent question: ", 20) \o question,
     tail |-> Lit("\n\nProvide a helpful, accurate answer ...", 140)]

NoPrompt == [head |-> <<>>, lines |-> <<>>, question |-> <<>>, tail |-> <<>>]

----------------------------------------------------------------------------
(* Worker: handleChatAPI and processMessage                                *)

MaxMessageLength == 100000

NoResult == [status |-> 0, reply |-> <<>>, error |-> <<>>]

\* The locals of one inbound request, and what it has done so far: the store requests it
\* has issued, the status each was answered with (0: none yet), the entry count each
\* successful append was answered with, and the collaborator calls it has made.
IdleTurn ==
    [pc |-> "idle", body |-> [sessionId |-> None, message |-> None], session |-> "",
     message |-> <<>>, type |-> "", userEntry |-> BlankEntry, assistantEntry |-> BlankEntry,
     extracted |-> <<>>, context |-> <<>>, reply |-> <<>>, result |-> NoResult,
     nAppend |-> 0, nRecent |-> 0, userStatus |-> 0, recentStatus |-> 0, assistantStatus |-> 0,
     userPos |-> 0, assistantPos |-> 0,
     nExtract |-> 0, nGenerate |-> 0, collabFailed |-> FALSE, prompt |-> NoPrompt]

\* the log of a session: the object's, or the persisted one when no object is loaded
Log(s) ==
    IF inst[s] = "ready" THEN entries[s]
    ELSE IF stored[s] = None THEN <<>>
    ELSE stored[s][1].entries

\* the JavaScript test !x of a body field
Falsy(field, empty) == field = None \/ field[1] = empty

MissingFields(body) == Falsy(body.sessionId, "") \/ Falsy(body.message, <<>>)

\* (variant) the length check is off by one
TooLongFromLimit(message) == StrLen(message) >= MaxMessageLength

TooLong(message) == StrLen(message) > MaxMessageLength

\* appendEntry up to its `await doStub.fetch`
appendEntry(p, s, entry) == [req EXCEPT ![p] = Request("append", "POST", s, entry, None)]

RecentLimit == 10

\* getRecentEntries up to its `await doStub.fetch`
getRecentEntries(p, s, limit) == [req EXCEPT ![p] = Request("recent", "GET", s, BlankEntry, Some(limit))]

UserEntryFor(type, message) ==
    CASE type = "url" ->
           Entry("user", Lit("Submitted URL for summarization: ", 33) \o Trim(message),
                 Some("url-summary"), Some(Trim(message)), Some(now))
      [] type = "content" -> Entry("user", message, Some("raw-summary"), None, Some(now))
      [] OTHER -> Entry("user", message, Some("followup"), None, Some(now))

\* the worker's requests are interchangeable: the first one is called p1
SlotFree(p) == p = "p1" \/ turn["p1"].pc # "idle"

Rejected(t, status, error) ==
    [t EXCEPT !.pc = "returned", !.result = [NoResult EXCEPT !.status = status, !.error = error]]

\* (variant) every session identifier names one and the same object
idFromNameShared(sessionId) == "s1"

\* env.CHAT_ROOM_DO.idFromName: the object of a session is named by the session identifier
idFromName(sessionId) == sessionId

\* handleChatAPI to the first `await appendEntry` of processMessage
handleChatAPI(p, method, body) ==
    /\ turn[p].pc = "idle"
    /\ SlotFree(p)
    /\ LET fresh == [IdleTurn EXCEPT !.body = body] IN
       IF method # "POST"
       THEN /\ turn' = [turn EXCEPT ![p] = Rejected(fresh, 405, Lit("Method not allowed", 18))]
            /\ UNCHANGED req
       ELSE IF MissingFields(body)
       THEN /\ turn' = [turn EXCEPT ![p] = Rejected(fresh, 400, Lit("Missing sessionId or message", 28))]
            /\ UNCHANGED req
       ELSE IF TooLong(body.message[1])
       THEN /\ turn' = [turn EXCEPT ![p] =
                          Rejected(fresh, 400, Lit("Message too long (max 100,000 characters)", 41))]
            /\ UNCHANGED req
       ELSE LET s == idFromName(body.sessionId[1])
                message == body.message[1]
                type == determineMessageType(message)
                userEntry == UserEntryFor(type, message)
            IN  /\ turn' = [turn EXCEPT ![p] = [fresh EXCEPT !.pc = "awaitUser", !.session = s,
                                !.message = message, !.type = type, !.userEntry = userEntry,
                                !.nAppend = 1]]
                /\ req' = appendEntry(p, s, userEntry)
    /\ UNCHANGED <<now, storeVars, cli, nOps>>

\* (variant) handleChatAPI has no catch: the exception ends the handler without a response
AbortUncaught(t, error) == [t EXCEPT !.pc = "thrown"]

\* the catch of handleChatAPI: status 500 with the error's message
Abort(t, error) ==
    [t EXCEPT !.pc = "returned", !.result = [NoResult EXCEPT !.status = 500, !.error = error]]

AppendError == Lit("Failed to append entry to conversation", 38)

RecentError == Lit("Failed to get recent entries", 28)

ApologyPrefix(type) ==
    CASE type = "url" -> Lit("Sorry, I couldn't fetch or summarize that URL. ", 47)
      [] type = "content" -> Lit("Sorry, I couldn't generate a summary. ", 38)
      [] OTHER -> Lit("Sorry, I couldn't answer your question. ", 40)

\* the reply of the catch block of a branch
ApologyReply(type, error) == ApologyPrefix(type) \o error

\* (variant) the catch block builds its entry from the user entry's literal
ApologyAsUser(type, reply) ==
    Entry("user", reply, IF type = "url" THEN Some("url-summary") ELSE None, None, Some(now))

\* (variant) the catch block stores the bare prefix, not the reply it returns
ApologyWithoutError(type, reply) ==
    Entry("assistant", ApologyPrefix(type), IF type = "url" THEN Some("url-summary") ELSE None,
          None, Some(now))

\* the assistant entry of the catch block of a branch
Apology(type, reply) ==
    Entry("assistant", reply, IF type = "url" THEN Some("url-summary") ELSE None, None, Some(now))

\* (variant) every branch copies the message into the url of its entry
AnswerWithUrl(type, reply, url) ==
    CASE type = "url" -> Entry("assistant", reply, Some("url-summary"), Some(url), Some(now))
      [] type = "content" -> Entry("assistant", reply, Some("raw-summary"), Some(url), Some(now))
      [] OTHER -> Entry("assistant", reply, Some("followup"), Some(url), Some(now))

\* the assistant entry of a branch whose try block ran to its end
Answer(type, reply, url) ==
    CASE type = "url" -> Entry("assistant", reply, Some("url-summary"), Some(url), Some(now))
      [] type = "content" -> Entry("assistant", reply, Some("raw-summary"), None, Some(now))
      [] OTHER -> Entry("assistant", reply, Some("followup"), None, Some(now))

\* from the assignment of assistantEntry to the last `await appendEntry`
StoreAssistant(p, t, reply, entry) ==
    /\ turn' = [turn EXCEPT ![p] = [t EXCEPT !.pc = "awaitAssistant", !.reply = reply,
                                              !.assistantEntry = entry, !.nAppend = @ + 1]]
    /\ req' = appendEntry(p, t.session, entry)

\* (variant) the catch block returns its reply without storing it
AbsorbUnstored(p, t, error) ==
    /\ turn' = [turn EXCEPT ![p] = [t EXCEPT !.pc = "returned", !.reply = ApologyReply(t.type, error),
                     !.result = [NoResult EXCEPT !.status = 200,
                                                  !.reply = ApologyReply(t.type, error)]]]
    /\ req' = [req EXCEPT ![p] = NoReq]

\* the catch block of a branch, to the last `await appendEntry`
Absorb(p, t, error) ==
    LET reply == ApologyReply(t.type, error)
    IN  StoreAssistant(p, t, reply, Apology(t.type, reply))

\* processMessage after `await appendEntry(doStub, userEntry)`
AfterUserAppend(p) ==
    LET t == [turn[p] EXCEPT !.userStatus = req[p].resp.status, !.userPos = req[p].resp.count] IN
    /\ t.pc = "awaitUser" /\ req[p].phase = "done"
    /\ IF ~Ok(req[p].resp)
       THEN /\ turn' = [turn EXCEPT ![p] = Abort(t, AppendError)]
            /\ req' = [req EXCEPT ![p] = NoReq]
       ELSE CASE t.type = "url" ->
                   /\ turn' = [turn EXCEPT ![p] = [t EXCEPT !.pc = "extracting", !.nExtract = @ + 1]]
                   /\ req' = [req EXCEPT ![p] = NoReq]
              [] t.type = "content" ->
                   /\ turn' = [turn EXCEPT ![p] = [t EXCEPT !.pc = "generating",
                                                            !.extracted = t.message,
                                                            !.nGenerate = @ + 1]]
                   /\ req' = [req EXCEPT ![p] = NoReq]
              [] OTHER ->
                   /\ turn' = [turn EXCEPT ![p] = [t EXCEPT !.pc = "awaitRecent", !.nRecent = @ + 1]]
                   /\ req' = getRecentEntries(p, t.session, RecentLimit)
    /\ UNCHANGED <<now, storeVars, cli, nOps>>

\* (variant) a text of exactly the minimum length is rejected too
TooShortAtLimit(text) == text = <<>> \/ StrLen(Trim(text)) <= MinExtractedLength

\* `!extractedText || extractedText.trim().length < 50`
TooShort(text) == text = <<>> \/ StrLen(Trim(text)) < MinExtractedLength

NoContentError == Lit("Could not extract meaningful content from the URL", 49)

\* (variant) a failed extraction is tried once more before the catch block runs
ExtractDoneRetry(p, outcome) ==
    LET t == turn[p]
        failed == ~outcome.ok \/ TooShort(outcome.text)
    IN
    /\ t.pc = "extracting"
    /\ IF failed /\ t.nExtract < 2
       THEN /\ turn' = [turn EXCEPT ![p] = [t EXCEPT !.nExtract = @ + 1]]
            /\ UNCHANGED req
       ELSE IF failed
       THEN Absorb(p, [t EXCEPT !.collabFailed = TRUE],
                   IF outcome.ok THEN NoContentError ELSE outcome.text)
       ELSE /\ turn' = [turn EXCEPT ![p] = [t EXCEPT !.pc = "generating", !.extracted = outcome.text,
                                                     !.nGenerate = @ + 1]]
            /\ UNCHANGED req
    /\ UNCHANGED <<now, storeVars, cli, nOps>>

\* url branch: `await fetchAndExtractText(url)` returns or throws
ExtractDone(p, outcome) ==
    LET t == turn[p] IN
    /\ t.pc = "extracting"
    /\ IF ~outcome.ok
       THEN Absorb(p, [t EXCEPT !.collabFailed = TRUE], outcome.text)
       ELSE IF TooShort(outcome.text)
       THEN Absorb(p, [t EXCEPT !.collabFailed = TRUE], NoContentError)
       ELSE /\ turn' = [turn EXCEPT ![p] = [t EXCEPT !.pc = "generating", !.extracted = outcome.text,
                                                     !.nGenerate = @ + 1]]
            /\ UNCHANGED req
    /\ UNCHANGED <<now, storeVars, cli, nOps>>

\* (variant) the call of the generation collaborator stands outside any try block
GenerateDoneUncaught(p, outcome) ==
    LET t == turn[p]
        r == LlmResult(outcome, IF t.type = "followup" THEN FollowupError ELSE SummaryError)
    IN
    /\ t.pc = "generating"
    /\ IF r.ok
       THEN StoreAssistant(p, t, r.text, Answer(t.type, r.text, Trim(t.message)))
       ELSE /\ turn' = [turn EXCEPT ![p] = Abort([t EXCEPT !.collabFailed = TRUE], r.text)]
            /\ UNCHANGED req
    /\ UNCHANGED <<now, storeVars, cli, nOps>>

\* `await generateSummary(...)` or `await answerFollowup(...)` returns or throws
GenerateDone(p, outcome) ==
    LET t == turn[p]
        r == LlmResult(outcome, IF t.type = "followup" THEN FollowupError ELSE SummaryError)
    IN
    /\ t.pc = "generating"
    /\ IF r.ok
       THEN StoreAssistant(p, t, r.text, Answer(t.type, r.text, Trim(t.message)))
       ELSE Absorb(p, [t EXCEPT !.collabFailed = TRUE], r.text)
    /\ UNCHANGED <<now, storeVars, cli, nOps>>

NoContextReply ==
    Lit("I don't have any previous context to answer your question. Please provide a URL or text to summarize first.", 107)

\* followup branch after `await getRecentEntries(doStub, 10)`
AfterRecent(p) ==
    LET t == [turn[p] EXCEPT !.recentStatus = req[p].resp.status] IN
    /\ t.pc = "awaitRecent" /\ req[p].phase = "done"
    /\ IF ~Ok(req[p].resp)
       THEN Absorb(p, t, RecentError)
       ELSE LET context == req[p].resp.entries IN
            IF Len(context) = 0
            THEN StoreAssistant(p, t, NoContextReply, Answer(t.type, NoContextReply, <<>>))
            ELSE /\ turn' = [turn EXCEPT ![p] =
                               [t EXCEPT !.pc = "generating", !.context = context,
                                         !.prompt = buildFollowupPrompt(t.message, context),
                                         !.nGenerate = @ + 1]]
                 /\ req' = [req EXCEPT ![p] = NoReq]
    /\ UNCHANGED <<now, storeVars, cli, nOps>>

\* processMessage after the last `await appendEntry`, and the response of handleChatAPI
AfterAssistantAppend(p) ==
    LET t == [turn[p] EXCEPT !.assistantStatus = req[p].resp.status,
                             !.assistantPos = req[p].resp.count] IN
    /\ t.pc = "awaitAssistant" /\ req[p].phase = "done"
    /\ IF ~Ok(req[p].resp)
       THEN turn' = [turn EXCEPT ![p] = Abort(t, AppendError)]
       ELSE turn' = [turn EXCEPT ![p] = [t EXCEPT !.pc = "returned",
                                                  !.result = [NoResult EXCEPT !.status = 200,
                                                                               !.reply = t.reply]]]
    /\ req' = [req EXCEPT ![p] = NoReq]
    /\ UNCHANGED <<now, storeVars, cli, nOps>>

----------------------------------------------------------------------------
(* Inbound requests of the worker                                          *)

UrlMessage ==
    Rep(" ", 1) \o Rep("H", 1) \o Rep("t", 2) \o Rep("p", 1) \o Rep(":", 1) \o Rep("/", 2) \o Rep("a", 1)

QuestionMessage == Rep("a", 1) \o Rep("?", 1)

LongestMessage == Rep("a", MaxMessageLength)

Messages == {UrlMessage, QuestionMessage, LongestMessage}

\* the session the inbound requests name
WorkerSession == "s1"

Bodies ==
    [sessionId : {Some(WorkerSession)}, message : {Some(m) : m \in Messages}]
    \cup { [sessionId |-> None, message |-> Some(QuestionMessage)],
           [sessionId |-> Some(""), message |-> Some(QuestionMessage)],
           [sessionId |-> Some("s1"), message |-> None],
           [sessionId |-> Some("s1"), message |-> Some(<<>>)],
           [sessionId |-> Some("s1"), message |-> Some(Rep("a", MaxMessageLength + 1))] }

----------------------------------------------------------------------------
(* Direct callers of a store object                                        *)

ClientEntries ==
    { Entry("user", Rep("a", 1), None, None, None),
      Entry("assistant", Rep("b", 1), Some("question"), Some(Rep("u", 1)), Some(1)),
      Entry("", Rep("a", 1), None, None, None),
      Entry("user", <<>>, None, None, None) }

ClientLimits == {None, Some(0), Some(1), Some(2)}

NoCall == [op |-> "none", session |-> "", entry |-> BlankEntry, limit |-> None, resp |-> NoResp]

\* the direct callers are interchangeable: the first to call is called c1
ClientFree(c) == c = "c1" \/ nOps > 0

ClientIssue(c, request) ==
    /\ req[c] = NoReq
    /\ ClientFree(c)
    /\ nOps < MaxOps
    /\ nOps' = nOps + 1
    /\ req' = [req EXCEPT ![c] = request]
    /\ UNCHANGED <<now, storeVars, turn, cli>>

\* the object the direct callers address
ClientSession == "s1"

ClientAppend(c) ==
    \/ \E e \in ClientEntries : ClientIssue(c, Request("append", "POST", ClientSession, e, None))
    \/ ClientIssue(c, Request("append", "GET", ClientSession, BlankEntry, None))

ClientRecent(c) ==
    \E l \in ClientLimits : ClientIssue(c, Request("recent", "GET", ClientSession, BlankEntry, l))

ClientClear(c) == ClientIssue(c, Request("clear", "POST", ClientSession, BlankEntry, None))

ClientStats(c) == ClientIssue(c, Request("stats", "GET", ClientSession, BlankEntry, None))

ClientReceive(c) ==
    /\ req[c].phase = "done"
    /\ cli' = [cli EXCEPT ![c] = [op |-> req[c].op, session |-> req[c].session,
                                  entry |-> req[c].entry, limit |-> req[c].limit,
                                  resp |-> req[c].resp]]
    /\ req' = [req EXCEPT ![c] = NoReq]
    /\ UNCHANGED <<now, storeVars, turn, nOps>>

----------------------------------------------------------------------------
(* Specifications                                                          *)

Init ==
    /\ now = 1
    /\ inst = [s \in Sessions |-> "none"]
    /\ entries = [s \in Sessions |-> <<>>]
    /\ createdAt = [s \in Sessions |-> 0]
    /\ lastAccessedAt = [s \in Sessions |-> 0]
    /\ stored = [s \in Sessions |-> None]
    /\ cleared = [s \in Sessions |-> FALSE]
    /\ req = [r \in Callers |-> NoReq]
    /\ turn = [p \in Procs |-> IdleTurn]
    /\ cli = [c \in Clients |-> NoCall]
    /\ nOps = 0

\* the worker and the store objects it reaches (it never requests /clear or /stats)
Next ==
    \/ Tick
    \/ \E s \in Sessions : Construct(s) \/ Load(s) \/ Evict(s)
    \/ \E p \in Procs :
         \/ \E b \in Bodies : handleChatAPI(p, "POST", b)
         \/ AfterUserAppend(p)
         \/ \E o \in ExtractOutcomes : ExtractDone(p, o)
         \/ \E o \in AiOutcomes : GenerateDone(p, o)
         \/ AfterRecent(p)
         \/ AfterAssistantAppend(p)
         \/ AppendReceive(p)
         \/ AppendPush(p)
         \/ RecentReceive(p)
         \/ PutOk(p)
         \/ PutFail(p)

Spec == Init /\ [][Next]_vars

\* inbound follow-up requests that name either session; the sessions are interchangeable:
\* the one the first request names is called s1
SessionBodies(p) ==
    [sessionId : {Some(s) : s \in IF p = "p1" THEN {"s1"} ELSE Sessions},
     message : {Some(QuestionMessage)}]

\* the worker under follow-up requests for two sessions
NextSessions ==
    \/ Tick
    \/ \E s \in Sessions : Construct(s) \/ Load(s) \/ Evict(s)
    \/ \E p \in Procs :
         \/ \E b \in SessionBodies(p) : handleChatAPI(p, "POST", b)
         \/ AfterUserAppend(p)
         \/ \E o \in AiOutcomes : GenerateDone(p, o)
         \/ AfterRecent(p)
         \/ AfterAssistantAppend(p)
         \/ AppendReceive(p)
         \/ AppendPush(p)
         \/ RecentReceive(p)
         \/ PutOk(p)
         \/ PutFail(p)

SpecSessions == Init /\ [][NextSessions]_vars

\* records an earlier life of the object has left in durable storage
EarlierRecords ==
    LET e1 == Entry("user", Rep("a", 1), Some("followup"), None, Some(1))
        e2 == Entry("assistant", Rep("r", 1), Some("followup"), None, Some(1))
    IN  { None,
          Some([entries |-> <<e1>>, createdAt |-> 1, lastAccessedAt |-> 1]),
          Some([entries |-> <<e1, e2>>, createdAt |-> 1, lastAccessedAt |-> 1]) }

InitStore ==
    /\ now = 1
    /\ inst = [s \in Sessions |-> "none"]
    /\ entries = [s \in Sessions |-> <<>>]
    /\ createdAt = [s \in Sessions |-> 0]
    /\ lastAccessedAt = [s \in Sessions |-> 0]
    /\ \E rec \in EarlierRecords : stored = [s \in Sessions |-> IF s = ClientSession THEN rec ELSE None]
    /\ cleared = [s \in Sessions |-> FALSE]
    /\ req = [r \in Callers |-> NoReq]
    /\ turn = [p \in Procs |-> IdleTurn]
    /\ cli = [c \in Clients |-> NoCall]
    /\ nOps = 0

\* store objects under callers that address them directly
NextStore ==
    \/ Tick
    \/ \E s \in Sessions : Construct(s) \/ Load(s) \/ Evict(s)
    \/ \E c \in Clients :
         \/ ClientAppend(c)
         \/ ClientRecent(c)
         \/ ClientClear(c)
         \/ ClientStats(c)
         \/ ClientReceive(c)
         \/ AppendReceive(c)
         \/ AppendPush(c)
         \/ RecentReceive(c)
         \/ ClearReceive(c)
         \/ handleGetStats(c)
         \/ PutOk(c)
         \/ PutFail(c)

SpecStore == InitStore /\ [][NextStore]_vars

----------------------------------------------------------------------------
(* Properties of the worker's turns (specification Spec)                   *)

StoredLog(s) == IF stored[s] = None THEN <<>> ELSE stored[s][1].entries

Replied(p) == turn[p].pc = "returned" /\ turn[p].result.status = 200

\* the inbound request was accepted: processMessage ran
Accepted(p) == turn[p].nAppend > 0

\* a store operation of the turn was answered with an error status
StoreError(t) ==
    \E st \in {t.userStatus, t.recentStatus, t.assistantStatus} : st # 0 /\ ~(st \in 200..299)

\* a store operation of the turn was answered 500: its durable write did not complete
StorageFailed(t) == 500 \in {t.userStatus, t.recentStatus, t.assistantStatus}

Quiescent == \A p \in Procs : turn[p].pc \in {"idle", "returned"}

IsApology(t) == t.reply # <<>> /\ <<t.reply[1]>> = ApologyPrefix(t.type)

C2_UserThenAssistant ==
    \A p \in Procs :
        LET t == turn[p]
            s == t.session
        IN  /\ t.nAppend <= 2
            /\ t.pc = "awaitUser" =>
                 /\ t.nAppend = 1 /\ req[p].op = "append" /\ req[p].entry.role = "user"
                 /\ t.userStatus = 0 /\ t.assistantStatus = 0
            /\ t.pc \in {"extracting", "generating", "awaitRecent"} =>
                 t.nAppend = 1 /\ Ok([status |-> t.userStatus]) /\ t.assistantStatus = 0
            /\ t.pc = "awaitAssistant" =>
                 /\ t.nAppend = 2 /\ req[p].op = "append" /\ req[p].entry.role = "assistant"
                 /\ Ok([status |-> t.userStatus]) /\ t.assistantStatus = 0
            /\ Replied(p) =>
                 /\ t.nAppend = 2
                 /\ 1 <= t.userPos /\ t.userPos < t.assistantPos /\ t.assistantPos <= Len(Log(s))
                 /\ Log(s)[t.userPos] = t.userEntry /\ t.userEntry.role = "user"
                 /\ Log(s)[t.assistantPos] = t.assistantEntry /\ t.assistantEntry.role = "assistant"

\* C2 witness: turns of two different branches have returned a reply, one of them through
\* its catch block.
C2_Witness ==
    /\ \A p \in Procs : Replied(p)
    /\ turn["p1"].type # turn["p2"].type
    /\ \E p \in Procs : turn[p].collabFailed

\* C3: after a failure of the extraction or the generation collaborator the turn goes on
\* to append an assistant entry whose content is the branch's apology, after its user
\* entry; it returns that apology with status 200, or status 500 only when that append
\* itself was answered 500 by the store.
C3_FailureIsolation ==
    \A p \in Procs :
        LET t == turn[p]
            s == t.session
        IN  t.collabFailed =>
              /\ t.pc \in {"awaitAssistant", "returned"}
              /\ IsApology(t)
              /\ t.assistantEntry.role = "assistant" /\ t.assistantEntry.content = t.reply
              /\ Ok([status |-> t.userStatus])
              /\ t.pc = "awaitAssistant" => req[p].op = "append" /\ req[p].entry.content = t.reply
              /\ t.pc = "returned" =>
                   \/ /\ t.result.status = 200 /\ t.result.reply = t.reply
                      /\ t.userPos < t.assistantPos
                      /\ Log(s)[t.assistantPos] = t.assistantEntry
                   \/ t.result.status = 500 /\ t.assistantStatus = 500

\* C3 witness: a turn whose collaborator failed has returned its apology, which is in the
\* log after its user entry.
C3_Witness ==
    \E p \in Procs :
        /\ turn[p].collabFailed /\ Replied(p) /\ IsApology(turn[p])
        /\ Log(turn[p].session)[turn[p].assistantPos].content = turn[p].result.reply

\* C4 (as claimed): the context a follow-up turn passes to generation does not contain the
\* user entry that the same turn appended.
C4_ContextExcludesQuestion ==
    \A p \in Procs :
        (turn[p].type = "followup" /\ turn[p].nGenerate > 0)
        => \A i \in DOMAIN turn[p].context : turn[p].context[i] # turn[p].userEntry

\* C5 (as claimed): a follow-up on a session whose log is empty (the first request, alone)
\* makes no generation call, is answered with the fixed reply, and leaves two entries.
C5_EmptyLogFollowup ==
    (turn["p2"].pc = "idle" /\ turn["p1"].type = "followup")
    => /\ turn["p1"].nGenerate = 0
       /\ Replied("p1") =>
            turn["p1"].result.reply = NoContextReply /\ Len(Log(turn["p1"].session)) = 2

\* C6: the reply a turn returns is the content of the assistant entry it appended, as the
\* log and the persisted record hold it, on success and on absorbed failure alike.
C6_ReplyIsAssistantContent ==
    \A p \in Procs :
        LET t == turn[p]
            s == t.session
        IN  Replied(p) =>
              /\ t.assistantPos \in 1..Len(Log(s)) /\ t.assistantPos \in 1..Len(StoredLog(s))
              /\ Log(s)[t.assistantPos].role = "assistant"
              /\ Log(s)[t.assistantPos].content = t.result.reply
              /\ StoredLog(s)[t.assistantPos].content = t.result.reply

\* C6 witness: one turn has returned a generated reply and another an apology.
C6_Witness ==
    /\ \A p \in Procs : Replied(p)
    /\ \E p \in Procs : turn[p].collabFailed
    /\ \E p \in Procs : ~turn[p].collabFailed /\ turn[p].nGenerate = 1

\* C7 (as claimed): once a store operation of a turn was answered 500, the turn has ended
\* with status 500 and without a reply.
C7_StorageFailureIsFatal ==
    \A p \in Procs :
        StorageFailed(turn[p])
        => /\ turn[p].pc = "returned"
           /\ turn[p].result.status = 500
           /\ turn[p].result.reply = <<>>

\* what the claim calls an invalid inbound request
Invalid(body) ==
    \/ body.sessionId = None \/ body.sessionId = Some("")
    \/ body.message = None \/ body.message = Some(<<>>)
    \/ StrLen(body.message[1]) > 100000

\* C8: an inbound request with sessionId or message absent or empty, or a message of more
\* than 100,000 characters, is answered 400 without a store request having been issued;
\* as long as only such requests have arrived, no store object exists and nothing is
\* persisted.  Every other request (a message of exactly 100,000 characters too) goes on to
\* its first append.
C8_RejectedBeforeStore ==
    /\ \A p \in Procs :
         turn[p].pc # "idle" =>
           IF Invalid(turn[p].body)
           THEN /\ turn[p].pc = "returned" /\ turn[p].result.status = 400
                /\ turn[p].nAppend = 0 /\ turn[p].nRecent = 0 /\ req[p] = NoReq
           ELSE turn[p].nAppend >= 1 /\ turn[p].result.status # 400
    /\ (\A p \in Procs : turn[p].pc = "idle" \/ Invalid(turn[p].body))
       => \A s \in Sessions :
            /\ inst[s] = "none" /\ stored[s] = None /\ entries[s] = <<>>
            /\ createdAt[s] = 0 /\ lastAccessedAt[s] = 0

\* C8 witness: a request with a message of 100,001 characters was rejected and one with a
\* message of exactly 100,000 characters was answered with a reply.
C8_Witness ==
    /\ turn["p1"].body.message # None /\ StrLen(turn["p1"].body.message[1]) = 100001
    /\ turn["p1"].result.status = 400
    /\ StrLen(turn["p2"].message) = 100000 /\ Replied("p2")

\* the appends answered with success: whose, the entry count answered, the entry
AppendsOf(p) ==
    LET t == turn[p] IN
    (IF Ok([status |-> t.userStatus])
     THEN {[who |-> <<p, "user">>, pos |-> t.userPos, entry |-> t.userEntry]} ELSE {})
    \cup
    (IF Ok([status |-> t.assistantStatus])
     THEN {[who |-> <<p, "assistant">>, pos |-> t.assistantPos, entry |-> t.assistantEntry]} ELSE {})
    \cup
    (IF req[p].op = "append" /\ req[p].phase = "done" /\ Ok(req[p].resp)
     THEN {[who |-> <<p, req[p].entry.role>>, pos |-> req[p].resp.count, entry |-> req[p].entry]}
     ELSE {})

\* the number of append requests the turns have issued
AppendsIssued == turn["p1"].nAppend + turn["p2"].nAppend

\* C9: appends on one session do not interleave, however their handlers overlap: the
\* appends answered with success were answered with pairwise different entry counts, the
\* persisted record and the loaded object both hold each one's entry at its count, and
\* neither holds more entries than appends were issued (no entry is there twice).
C9_AppendsDoNotInterleave ==
    LET all == UNION {AppendsOf(p) : p \in Procs}
        s == WorkerSession
    IN  /\ \A a, b \in all : a.who # b.who => a.pos # b.pos
        /\ Len(StoredLog(s)) <= AppendsIssued /\ Len(entries[s]) <= AppendsIssued
        /\ \A a \in all :
             /\ a.pos \in 1..Len(StoredLog(s)) /\ StoredLog(s)[a.pos] = a.entry
             /\ inst[s] = "ready" => a.pos \in 1..Len(entries[s]) /\ entries[s][a.pos] = a.entry

\* C9 witness: two appends whose handlers overlapped (the second was received by the
\* object before the first was answered) have both been answered with success.
C9_Witness ==
    /\ req["p1"].op = "append" /\ req["p1"].phase = "done" /\ Ok(req["p1"].resp)
    /\ req["p2"].op = "append" /\ req["p2"].phase = "done" /\ Ok(req["p2"].resp)
    /\ req["p1"].resp.count = 2 /\ req["p2"].resp.count = 1
    /\ inst[WorkerSession] = "ready" /\ Len(entries[WorkerSession]) = 2

----------------------------------------------------------------------------
(* Properties of the store object (specification SpecStore)                *)

IsPrefix(a, b) == Len(a) <= Len(b) /\ SubSeq(b, 1, Len(a)) = a

\* a request is being handled by the object of its session
Handled(r) == req[r].phase \in {"body", "put"}

ServedOnlyWhenLoaded == \A r \in Callers : Handled(r) => inst[req[r].session] = "ready"

\* the loaded object agrees with the persisted record: it has the record's createdAt, and
\* its log extends the record's unless it has handled a clear
LoadedLogKept ==
    \A s \in Sessions :
        (inst[s] = "ready" /\ stored[s] # None) =>
          /\ createdAt[s] = stored[s][1].createdAt
          /\ cleared[s] \/ IsPrefix(stored[s][1].entries, entries[s])

\* C10: a request (append, recent, clear or stats) is handled by an object only once its
\* load has completed, and the loaded object never holds the empty log and fresh createdAt
\* of the constructor in place of an existing persisted record.
C10_InitializationBarrier == ServedOnlyWhenLoaded /\ LoadedLogKept

\* C10 witness: an object instantiated over an existing persisted record has loaded it and
\* is handling an append on top of the loaded entries.
C10_Witness ==
    \E r \in Clients :
        /\ req[r].op = "append" /\ req[r].phase = "put" /\ req[r].session = ClientSession
        /\ stored[ClientSession] # None /\ Len(stored[ClientSession][1].entries) = 2
        /\ Len(entries[ClientSession]) = 3
        /\ createdAt[ClientSession] = stored[ClientSession][1].createdAt
        /\ now > createdAt[ClientSession]

\* the last operation of caller c was answered and read, its next one is answered, and no
\* other caller has ever called: the two operations are consecutive on the session
Alone(c) == \A d \in Clients \ {c} : cli[d] = NoCall /\ req[d] = NoReq

Consecutive(c, first, second) ==
    /\ Alone(c)
    /\ cli[c].op = first /\ Ok(cli[c].resp)
    /\ req[c].op = second /\ req[c].phase = "done" /\ Ok(req[c].resp)

\* the step in which the handler of request r gets its answer from `await this.saveState()`
Saved(r) == req[r].phase = "put" /\ req'[r].phase = "done" /\ Ok(req'[r].resp)

AppendDurable ==
    \A r \in Callers :
        (req[r].op = "append" /\ Saved(r))
        => LET log == StoredLog(req[r].session)'
           IN  /\ Len(log) > 0 /\ log[Len(log)] = req[r].entry
               /\ req'[r].resp.count = Len(log)

ReloadReflects ==
    \A c \in Clients :
        /\ Consecutive(c, "append", "stats") => req[c].resp.count = cli[c].resp.count
        /\ (Consecutive(c, "append", "recent") /\ req[c].limit # Some(0))
           => LET window == req[c].resp.entries
              IN  Len(window) > 0 /\ window[Len(window)] = cli[c].entry

\* C11: when an append is answered with success the persisted record already ends with the
\* appended entry and has as many entries as the answer says; a stats or recent that follows
\* the append, with the object discarded and instantiated again in between or not, counts
\* and returns that entry.
C11_DurableBeforeSuccess == [][AppendDurable]_vars /\ []ReloadReflects

\* C11 witness: after a successful append on top of two persisted entries the object was
\* discarded; it is being instantiated again for a stats call, with three entries persisted.
C11_Witness ==
    /\ Alone("c1")
    /\ cli["c1"].op = "append" /\ Ok(cli["c1"].resp) /\ cli["c1"].resp.count = 3
    /\ req["c1"].op = "stats" /\ req["c1"].phase = "sent"
    /\ inst[ClientSession] = "loading"
    /\ Len(StoredLog(ClientSession)) = 3
    /\ StoredLog(ClientSession)[3] = cli["c1"].entry

\* a step of a clear request on session s
ClearStep(s) == \E r \in Callers : req[r].op = "clear" /\ req[r].session = s /\ req'[r] # req[r]

\* C12 (as claimed): the log of a session (what recent and stats are answered from: the
\* object's entries, or the persisted ones when no object is loaded) only grows: before
\* every step it is a prefix of what it is after the step, unless the step belongs to a
\* clear or the object has handled a clear.
C12_AppendOnly ==
    [][\A s \in Sessions : IsPrefix(Log(s), Log(s)') \/ ClearStep(s) \/ cleared[s]]_vars

\* the createdAt values of a log do not decrease along it
NonDecreasing(log) ==
    \A i, j \in DOMAIN log : i < j => log[i].createdAt[1] <= log[j].createdAt[1]

\* C13 (as claimed): in every reachable state the createdAt values of the entries of a
\* session's log, in memory and persisted, are non-decreasing in log order, concurrent
\* turns on the session included.
C13_TimestampsNonDecreasing ==
    \A s \in Sessions : NonDecreasing(entries[s]) /\ NonDecreasing(StoredLog(s))

\* the last min(k, Len(log)) entries of a log, in the log's order
LastN(log, k) == SubSeq(log, Len(log) - Min(k, Len(log)) + 1, Len(log))

\* C14 (as claimed): a recent call with limit k >= 0 (0 and k greater than the length of the
\* log included) is answered with exactly the last min(k, n) entries of the log of length n,
\* oldest first.
C14_RecentWindow ==
    [][\A r \in Callers :
         (req[r].op = "recent" /\ req[r].limit # None /\ Saved(r))
         => req'[r].resp.entries = LastN(entries[req[r].session], req[r].limit[1])]_vars

\* a step of a clear request keeps createdAt; the step in which its save returns leaves the
\* log empty in the object and in the record, and the record with the createdAt it had
ClearEmpties ==
    \A r \in Callers :
        LET s == req[r].session IN
        /\ (req[r].op = "clear" /\ req'[r] # req[r]) => createdAt'[s] = createdAt[s]
        /\ (req[r].op = "clear" /\ Saved(r))
           => /\ entries'[s] = <<>>
              /\ stored'[s] # None /\ stored'[s][1].entries = <<>>
              /\ stored'[s][1].createdAt = createdAt[s]
              /\ stored[s] # None => stored'[s][1].createdAt = stored[s][1].createdAt

StatsAfterClear ==
    \A c \in Clients : Consecutive(c, "clear", "stats") => req[c].resp.count = 0

\* C15: a clear that is answered with success leaves the log empty in memory and in the
\* persisted record and does not change createdAt, in memory or persisted; a stats call
\* right after it is answered with count 0.
C15_ClearKeepsCreatedAt == [][ClearEmpties]_vars /\ []StatsAfterClear

\* C15 witness: a session created at time 1 was cleared at time 2; the stats call right
\* after the clear reports count 0 and createdAt 1, and the persisted log is empty.
C15_Witness ==
    /\ Consecutive("c1", "clear", "stats")
    /\ req["c1"].resp.count = 0
    /\ req["c1"].resp.createdAt = 1 /\ req["c1"].resp.lastAccessedAt = 2
    /\ stored[ClientSession] # None /\ stored[ClientSession][1].entries = <<>>
    /\ stored[ClientSession][1].createdAt = 1

\* C16: an append answered with success and followed at once by recent with limit 1 is
\* answered with exactly one entry, which has the role, content, type and url of the entry
\* appended, whatever the log held before.
C16_AppendRecentRoundTrip ==
    \A c \in Clients :
        (Consecutive(c, "append", "recent") /\ req[c].limit = Some(1))
        => LET window == req[c].resp.entries
               e == cli[c].entry
           IN  /\ Len(window) = 1
               /\ window[1].role = e.role /\ window[1].content = e.content
               /\ window[1].type = e.type /\ window[1].url = e.url

\* C16 witness: an entry with a type and a url was appended on top of two persisted entries and
\* read back by recent with limit 1.
C16_Witness ==
    /\ Consecutive("c1", "append", "recent") /\ req["c1"].limit = Some(1)
    /\ cli["c1"].entry.type = Some("question") /\ cli["c1"].entry.url # None
    /\ cli["c1"].resp.count = 3
    /\ req["c1"].resp.entries = <<cli["c1"].entry>>

\* the count a stats call on session s would be answered with
StatsCount(s) == Len(Log(s))

\* a step of an append request on session s
AppendStep(s) == \E r \in Callers : req[r].op = "append" /\ req[r].session = s /\ req'[r] # req[r]

\* C17 (as claimed): the count that stats reports for a session is the same before and
\* after every step that is not a step of an append (steps of a clear, and of an object that
\* has handled one, are left aside): stats calls with no append between them report one count.
C17_StatsIdempotent ==
    [][\A s \in Sessions :
         StatsCount(s)' = StatsCount(s) \/ AppendStep(s) \/ ClearStep(s) \/ cleared[s]]_vars

\* the step in which the object serves the operation of request r: the handler runs up to
\* its call of saveState, or, for stats, to its response
Served(r) ==
    \/ req[r].phase \in {"sent", "body"} /\ req'[r].phase = "put"
    \/ req[r].op = "stats" /\ req[r].phase = "sent" /\ req'[r].phase = "done"

\* C18 (as claimed): every operation served on a session (append, recent, clear, stats)
\* sets the session's lastAccessedAt to the time of the operation.
C18_EveryOperationTouches ==
    [][\A r \in Callers : Served(r) => lastAccessedAt'[req[r].session] = now]_vars

\* the answers to stats calls on session s that callers hold
StatsAnswers(s) ==
    {cli[c].resp : c \in {d \in Clients : cli[d].op = "stats" /\ cli[d].session = s /\ Ok(cli[d].resp)}}
    \cup
    {req[c].resp : c \in {d \in Clients : req[d].op = "stats" /\ req[d].session = s
                                           /\ req[d].phase = "done" /\ Ok(req[d].resp)}}

\* C19 (as claimed): all stats answers for one session report the same createdAt, whatever
\* happened between the calls, the discarding of the object before any write included.
C19_CreatedAtSetOnce ==
    \A s \in Sessions : \A a, b \in StatsAnswers(s) : a.createdAt = b.createdAt

----------------------------------------------------------------------------
(* Properties of turns on two sessions (specification SpecSessions)        *)

\* the accepted inbound requests that named session s
TurnsOn(s) == {p \in Procs : Accepted(p) /\ turn[p].body.sessionId = Some(s)}

\* the store state of session s
SessionState(s) == <<inst[s], entries[s], createdAt[s], lastAccessedAt[s], stored[s], cleared[s]>>

\* a step changes the store state of a session only if it is a step of that session's
\* object or of a request addressed to it
Frame ==
    \A s \in Sessions :
        SessionState(s)' # SessionState(s)
        => \/ inst'[s] # inst[s]
           \/ \E r \in Callers : req[r].session = s /\ req'[r] # req[r]

\* a session holds what the turns that named it have appended, and nothing else: none of it
\* exists before such a turn, its entries are entries of those turns, the context of a
\* follow-up holds entries of its own session only, and once all turns have returned without
\* a store error its log has two entries per turn that named it
Isolated ==
    \A s \in Sessions :
        LET own == UNION {{turn[p].userEntry, turn[p].assistantEntry} : p \in TurnsOn(s)}
        IN  /\ TurnsOn(s) = {}
               => /\ inst[s] = "none" /\ stored[s] = None /\ entries[s] = <<>>
                  /\ createdAt[s] = 0 /\ lastAccessedAt[s] = 0
            /\ \A i \in DOMAIN entries[s] : entries[s][i] \in own
            /\ \A i \in DOMAIN StoredLog(s) : StoredLog(s)[i] \in own
            /\ \A p \in TurnsOn(s) : \A i \in DOMAIN turn[p].context : turn[p].context[i] \in own
            /\ (Quiescent /\ \A p \in Procs : ~StoreError(turn[p]))
               => Len(Log(s)) = 2 * Cardinality(TurnsOn(s))

\* C20: sessions are independent: a turn on one session, at any interleaving with a turn on
\* another, leaves the other's entries, createdAt, lastAccessedAt and persisted record as
\* they are, and what a session's turns read and leave is the same as without the other.
C20_SessionsIndependent == [][Frame]_vars /\ []Isolated

\* C20 witness: a follow-up turn on s1 and one on s2 overlapped (the second built its user
\* entry before the first built its assistant entry) and both have returned a reply; each
\* log holds its own two entries, and each context held its own question only.
C20_Witness ==
    /\ turn["p1"].body.sessionId = Some("s1") /\ turn["p2"].body.sessionId = Some("s2")
    /\ Replied("p1") /\ Replied("p2")
    /\ turn["p1"].context = <<turn["p1"].userEntry>>
    /\ turn["p2"].context = <<turn["p2"].userEntry>>
    /\ Log("s1") = <<turn["p1"].userEntry, turn["p1"].assistantEntry>>
    /\ Log("s2") = <<turn["p2"].userEntry, turn["p2"].assistantEntry>>
    /\ turn["p2"].userEntry.createdAt = Some(1) /\ turn["p1"].assistantEntry.createdAt = Some(2)

----------------------------------------------------------------------------
(* Ordering and pairing of the turns' entries (specification Spec)         *)

\* C21 (as claimed): entries are in the log in the order in which their appends were
\* issued to the store.  The append of p1's user entry is always issued before that of
\* p2's (p2 is the later request): when both were answered with success, p1's user entry
\* is at the lower position.
C21_IssueOrderIsLogOrder ==
    (Ok([status |-> turn["p1"].userStatus]) /\ Ok([status |-> turn["p2"].userStatus]))
    => turn["p1"].userPos < turn["p2"].userPos

----------------------------------------------------------------------------
(* The classifier on its boundary inputs (specification SpecClassify)      *)

Str(chars) == [i \in 1..Len(chars) |-> [c |-> chars[i], n |-> 1]]

\* messages around every rule of the classifier and every threshold
ClassifierTexts ==
    { Str(<<"h", "t", "t", "p", ":", "/", "/", "a">>),
      Str(<<" ", "H", "T", "T", "P", "S", ":", "/", "/", "a", "?">>),
      Str(<<"h", "T", "t", "P", ":", "/", "/">>) \o Rep("a", 201),
      Str(<<"h", "t", "t", "p", ":", "/", "a">>),
      Str(<<"h", "t", "t", "p", "x", ":", "/", "/", "a", ".", "!", ".">>),
      Str(<<"x", " ", "h", "t", "t", "p", "s", ":", "/", "/", "a">>),
      Rep("a", 201) \o Rep("?", 1),
      Rep("a", 200) \o Rep("?", 1) \o Rep(" ", 2),
      Rep("a", 200),
      Rep("a", 201),
      Rep(" ", 1) \o Rep("a", 200) \o Rep("\n", 1),
      Rep("a", 198) \o Rep(".", 2),
      Str(<<"a", ".", "b", "!", "c", ".">>),
      Str(<<"a", ".", "b", "!">>),
      Str(<<"?", "a", "?", "a", "!", "a">>),
      Str(<<"a", ".", ".", "?">>),
      Str(<<"a", ".", ".", ".">>),
      Str(<<"a">>) }

ClassifierBodies == [sessionId : {Some(WorkerSession)}, message : {Some(m) : m \in ClassifierTexts}]

\* inbound requests with the classifier's boundary messages, up to their classification
NextClassify == \E p \in Procs : \E b \in ClassifierBodies : handleChatAPI(p, "POST", b)

SpecClassify == Init /\ [][NextClassify]_vars

\* the five rules, in their order, on the characters of the trimmed text
ClassifyByRules(text) ==
    LET t == Trim(text)
        n == StrLen(t)
        lower == [i \in 1..Min(n, 8) |-> ToLower(CharAt(t, i))]
        StartsWith(prefix) == Len(lower) >= Len(prefix) /\ SubSeq(lower, 1, Len(prefix)) = prefix
        marks == Cardinality({i \in 1..n : CharAt(t, i) \in {".", "!", "?"}})
    IN  IF StartsWith(<<"h", "t", "t", "p", ":", "/", "/">>)
           \/ StartsWith(<<"h", "t", "t", "p", "s", ":", "/", "/">>) THEN "url"
        ELSE IF n > 0 /\ CharAt(t, n) = "?" THEN "followup"
        ELSE IF n > 200 THEN "content"
        ELSE IF marks >= 3 THEN "content"
        ELSE "followup"

\* C22: the classifier gives every message the class of the first of the five rules that
\* applies: url for a leading http:// or https:// in any case after trimming, else followup
\* for a trailing question mark, else content for more than 200 characters, else content
\* for three or more of the characters . ! ?, else followup.
C22_ClassifierRules ==
    \A p \in Procs :
        turn[p].pc # "idle"
        => /\ turn[p].type = ClassifyByRules(turn[p].message)
           /\ turn[p].type = determineMessageType(turn[p].message)
           /\ turn[p].type \in {"url", "content", "followup"}

\* C22 witness: a message of 201 characters and a question mark was classified followup,
\* and one of 198 letters and two full stops (200 characters, two marks) followup as well.
C22_Witness ==
    /\ turn["p1"].message = Rep("a", 201) \o Rep("?", 1) /\ turn["p1"].type = "followup"
    /\ turn["p2"].message = Rep("a", 198) \o Rep(".", 2) /\ turn["p2"].type = "followup"

----------------------------------------------------------------------------
(* The context of a follow-up: buildFollowupPrompt over earlier logs        *)

\* entries an earlier log can hold: contents at and just over the limits of the prompt,
\* a URL submission, a url-summary entry without url, and a system entry
PromptPool ==
    << Entry("system", Rep("s", 1), None, None, Some(1)),
       Entry("user", Rep("g", UserContentLimit), Some("followup"), None, Some(1)),
       Entry("user", Rep("c", UserContentLimit + 1), Some("raw-summary"), None, Some(1)),
       Entry("assistant", Rep("b", AssistantContentLimit), Some("followup"), None, Some(1)),
       Entry("assistant", Rep("d", AssistantContentLimit + 1), Some("raw-summary"), None, Some(1)),
       Entry("user", Lit("Submitted URL for summarization: ", 33) \o Rep("u", 1),
             Some("url-summary"), Some(Rep("u", 1)), Some(1)),
       Entry("user", Rep("e", 1), Some("url-summary"), None, Some(1)),
       Entry("assistant", Rep("f", 1), Some("url-summary"), Some(Rep("u", 1)), Some(1)) >>

\* the persisted records of earlier turns: every run of consecutive entries of the pool
PromptRecords ==
    {None} \cup
    { Some([entries |-> SubSeq(PromptPool, i, j), createdAt |-> 1, lastAccessedAt |-> 1]) :
        i \in 1..Len(PromptPool), j \in 1..Len(PromptPool) }

InitPrompt ==
    /\ now = 1
    /\ inst = [s \in Sessions |-> "none"]
    /\ entries = [s \in Sessions |-> <<>>]
    /\ createdAt = [s \in Sessions |-> 0]
    /\ lastAccessedAt = [s \in Sessions |-> 0]
    /\ \E rec \in PromptRecords : stored = [s \in Sessions |-> IF s = WorkerSession THEN rec ELSE None]
    /\ cleared = [s \in Sessions |-> FALSE]
    /\ req = [r \in Callers |-> NoReq]
    /\ turn = [p \in Procs |-> IdleTurn]
    /\ cli = [c \in Clients |-> NoCall]
    /\ nOps = 0

\* one follow-up question on a session with an earlier log
NextPrompt ==
    \/ \E s \in Sessions : Construct(s) \/ Load(s)
    \/ handleChatAPI("p1", "POST", [sessionId |-> Some(WorkerSession), message |-> Some(QuestionMessage)])
    \/ AfterUserAppend("p1")
    \/ AfterRecent("p1")
    \/ \E o \in AiOutcomes : GenerateDone("p1", o)
    \/ AfterAssistantAppend("p1")
    \/ AppendReceive("p1")
    \/ AppendPush("p1")
    \/ RecentReceive("p1")
    \/ PutOk("p1")

SpecPrompt == InitPrompt /\ [][NextPrompt]_vars

\* the turns that have built a follow-up prompt
Prompted == { p \in Procs : turn[p].prompt # NoPrompt }

\* the rendered line is the line of this entry: it carries the entry's role and starts
\* with the entry's url or content
Shows(line, entry) ==
    /\ Len(line) >= 2
    /\ \/ /\ entry.url # None
          /\ line[1].c = "User submitted URL: "
          /\ line[2].c = entry.url[1][1].c
       \/ line[2].c = entry.content[1].c
    /\ entry.role = "user" => line[1].c \in {"User submitted URL: ", "User: "}
    /\ entry.role = "assistant" => line[1].c = "Assistant: "

\* C23 (as claimed): for every supplied sequence of n entries the context builder renders
\* exactly the last min(5, n) entries, one rendered item per selected entry, oldest
\* selected entry first; of 7 entries it renders exactly the last 5.
C23_LastFiveRendered ==
    \A p \in Prompted :
        LET selected == LastN(turn[p].context, 5)
            lines == turn[p].prompt.lines
        IN  /\ Len(lines) = Min(5, Len(turn[p].context))
            /\ \A i \in 1..Len(lines) : Shows(lines[i], selected[i])

\* the selected entries that have a line: the user and assistant entries among the last 5
Shown(context) ==
    SelectSeq(LastN(context, 5), LAMBDA e : e.role \in {"user", "assistant"})

\* the part of a rendered line between the role prefix and the line end
LineBody(line) == SubSeq(line, 2, Len(line) - 1)

Marker == [c |-> ".", n |-> 3]

\* the line holds the content whole and unmarked when it is within the limit, and else
\* its first `limit` characters followed by the marker
Truncated(line, content, limit) ==
    LET body == LineBody(line) IN
    IF StrLen(content) > limit
    THEN /\ body # <<>> /\ body[Len(body)] = Marker
         /\ LET front == SubSeq(body, 1, Len(body) - 1) IN
            /\ StrLen(front) = limit
            /\ \A i \in 1..limit : CharAt(front, i) = CharAt(content, i)
    ELSE body = content

\* C28: in the context builder a user entry not rendered as a URL line contributes at
\* most 200 characters of its content and an assistant entry at most 300; the ellipsis
\* marker is appended if and only if the content is strictly longer than the threshold
\* (content of exactly 200, respectively 300, characters is rendered whole, unmarked).
C28_TruncationThresholds ==
    \A p \in Prompted :
        LET shown == Shown(turn[p].context)
            lines == turn[p].prompt.lines
        IN  /\ Len(lines) = Len(shown)
            /\ \A i \in 1..Len(lines) :
                 /\ (shown[i].role = "user" /\ lines[i][1].c # "User submitted URL: ")
                      => Truncated(lines[i], shown[i].content, 200)
                 /\ shown[i].role = "assistant" => Truncated(lines[i], shown[i].content, 300)

\* C28 witness: one prompt renders a user entry of 200 characters whole, one of 201 cut to
\* 200 and marked, an assistant entry of 300 whole and one of 301 cut to 300 and marked.
C28_Witness ==
    \E p \in Prompted :
        LET lines == turn[p].prompt.lines
            Has(l) == \E i \in 1..Len(lines) : lines[i] = l
        IN  /\ Has(Lit("User: ", 6) \o Rep("g", 200) \o Rep("\n", 1))
            /\ Has(Lit("User: ", 6) \o Rep("c", 200) \o Rep(".", 3) \o Rep("\n", 1))
            /\ Has(Lit("Assistant: ", 11) \o Rep("b", 300) \o Rep("\n", 1))
            /\ Has(Lit("Assistant: ", 11) \o Rep("d", 300) \o Rep(".", 3) \o Rep("\n", 1))

----------------------------------------------------------------------------
(* Failures of the collaborators within one turn                           *)

\* an assistant entry whose content is the apology of the branch `type`
ApologyEntry(entry, type) ==
    /\ entry.role = "assistant"
    /\ entry.content # <<>> /\ <<entry.content[1]>> = ApologyPrefix(type)

\* C24: in the URL branch an extraction result that is empty or shorter than 50
\* characters (e.g. 30) is an extraction failure: generation is not invoked and the
\* assistant entry that is appended has apology content and no url; a result of exactly
\* 50 characters is no failure and leads to a generation call.
C24_ShortExtractionFails ==
    [][ \A p \in Procs : \A o \in ExtractOutcomes :
          (o.ok /\ ExtractDone(p, o)) =>
            IF StrLen(Trim(o.text)) < 50
            THEN /\ turn'[p].nGenerate = 0
                 /\ turn'[p].pc = "awaitAssistant"
                 /\ req'[p].op = "append" /\ req'[p].entry = turn'[p].assistantEntry
                 /\ ApologyEntry(turn'[p].assistantEntry, "url")
                 /\ turn'[p].assistantEntry.url = None
            ELSE /\ turn'[p].pc = "generating"
                 /\ turn'[p].nGenerate = 1
                 /\ req'[p] = NoReq ]_vars

\* C24 witness: one URL turn got too short a text and has stored an apology without url,
\* never having called generation; another got exactly 50 characters and called it.
C24_Witness ==
    \E p, q \in Procs :
        /\ turn[p].type = "url" /\ turn[p].nExtract = 1 /\ turn[p].nGenerate = 0
        /\ turn[p].assistantEntry.content = ApologyPrefix("url") \o NoContentError
        /\ turn[p].assistantEntry.url = None
        /\ Replied(p)
        /\ turn[q].type = "url" /\ turn[q].nGenerate = 1 /\ StrLen(turn[q].extracted) = 50

\* the positions of the apology entries in a log
ApologyEntries(log) ==
    { i \in 1..Len(log) : \E ty \in {"url", "content", "followup"} : ApologyEntry(log[i], ty) }

\* the extraction of the turn has failed
ExtractionFailed(t) ==
    t.type = "url" /\ t.nExtract > 0 /\ t.pc # "extracting" /\ t.extracted = <<>>

\* C25: no automatic retries: within one turn extraction is invoked at most once and
\* generation at most once; extraction is invoked only in the URL branch, generation is
\* never invoked after an extraction failure, and each failure yields exactly one
\* apology assistant entry.
C25_NoRetries ==
    /\ \A p \in Procs :
         LET t == turn[p] IN
         /\ t.nExtract <= 1 /\ t.nGenerate <= 1
         /\ t.nExtract > 0 => t.type = "url"
         /\ ExtractionFailed(t) => t.nGenerate = 0 /\ t.collabFailed
         /\ t.collabFailed => /\ t.nAppend = 2
                              /\ ApologyEntry(t.assistantEntry, t.type)
    /\ (Quiescent /\ \A p \in Procs : ~StoreError(turn[p]))
         => Cardinality(ApologyEntries(Log(WorkerSession)))
              = Cardinality({p \in Procs : turn[p].collabFailed})

\* C25 witness: all turns have returned with no store error; in one the single extraction
\* failed and generation was never called, in the other the single generation failed; the
\* log holds one apology for each.
C25_Witness ==
    /\ Quiescent /\ \A p \in Procs : ~StoreError(turn[p])
    /\ \E p, q \in Procs :
         /\ ExtractionFailed(turn[p]) /\ turn[p].nExtract = 1 /\ turn[p].nGenerate = 0
         /\ turn[q].collabFailed /\ turn[q].nGenerate = 1
    /\ Cardinality(ApologyEntries(Log(WorkerSession))) = 2

\* an entry of the log carries a url only if its type is url-summary
UrlOnlyOnUrlSummary(log) ==
    \A i \in 1..Len(log) : log[i].url # None => log[i].type = Some("url-summary")

\* C27: in every log state produced by turns an entry carries a url only if its type is
\* url-summary; no entry appended by the content or follow-up branch and no apology
\* assistant entry carries a url.
C27_UrlOnlyOnUrlSummary ==
    /\ \A s \in Sessions : UrlOnlyOnUrlSummary(entries[s]) /\ UrlOnlyOnUrlSummary(StoredLog(s))
    /\ \A p \in Procs :
         LET t == turn[p] IN
         /\ t.type \in {"content", "followup"}
              => t.userEntry.url = None /\ t.assistantEntry.url = None
         /\ t.collabFailed => t.assistantEntry.url = None
    /\ \A s \in Sessions : \A i \in ApologyEntries(Log(s)) : Log(s)[i].url = None

\* C27 witness: the log holds the entries of a summarised URL, both with url and type
\* url-summary, and the entries of a content or follow-up turn, neither with a url.
C27_Witness ==
    /\ Quiescent
    /\ \E p, q \in Procs :
         /\ turn[p].type = "url" /\ Replied(p) /\ ~turn[p].collabFailed
         /\ turn[p].assistantEntry.url # None
         /\ turn[q].type \in {"content", "followup"} /\ Replied(q)
    /\ Len(Log(WorkerSession)) = 4
    /\ \E i \in 1..4 : Log(WorkerSession)[i].role = "assistant" /\ Log(WorkerSession)[i].url # None

\* C29 (as claimed): turns on one session are serialized as whole turns: the user entry
\* and the assistant entry of each turn are adjacent in the log, so at every quiescent
\* point the log is a sequence of (user, assistant) pairs.
C29_TurnsSerialized ==
    (Quiescent /\ \A p \in Procs : ~StoreError(turn[p]))
    => /\ \A p \in Procs : Accepted(p) => turn[p].assistantPos = turn[p].userPos + 1
       /\ LET log == Log(WorkerSession) IN
          \A i \in 1..Len(log) : log[i].role = IF i % 2 = 1 THEN "user" ELSE "assistant"

\* C30 (as claimed): an append whose durable write fails has no effect on the session:
\* after the failed append the in-memory log equals the log before the call.
C30_FailedAppendNoEffect ==
    [][ \A r \in Callers :
          (req[r].op = "append" /\ PutFail(r)) =>
            LET withEntry == req[r].snap[1].entries
            IN  entries'[req[r].session] = SubSeq(withEntry, 1, Len(withEntry) - 1) ]_vars

----------------------------------------------------------------------------
(* Progress of a turn                                                      *)

\* inbound requests: the first for a URL or a question on s1, the second a question on
\* either session
LiveBodies(p) ==
    [sessionId : {Some(s) : s \in IF p = "p1" THEN {"s1"} ELSE Sessions},
     message : IF p = "p1" THEN {Some(UrlMessage), Some(QuestionMessage)}
                           ELSE {Some(QuestionMessage)}]

NextLive ==
    \/ \E s \in Sessions : Construct(s) \/ Load(s) \/ Evict(s)
    \/ \E p \in Procs :
         \/ \E b \in LiveBodies(p) : handleChatAPI(p, "POST", b)
         \/ AfterUserAppend(p)
         \/ \E o \in ExtractOutcomes : ExtractDone(p, o)
         \/ \E o \in AiOutcomes : GenerateDone(p, o)
         \/ AfterRecent(p)
         \/ AfterAssistantAppend(p)
         \/ AppendReceive(p)
         \/ AppendPush(p)
         \/ RecentReceive(p)
         \/ PutOk(p)
         \/ PutFail(p)

\* every collaborator call and every storage.put returns, a requested object is
\* instantiated and loaded, a delivered request is handled, and a continuation whose
\* await has settled runs; the arrival of requests and eviction are not forced
Fairness ==
    /\ \A s \in Sessions : WF_vars(Construct(s)) /\ WF_vars(Load(s))
    /\ \A p \in Procs :
         /\ WF_vars(AppendReceive(p))
         /\ WF_vars(AppendPush(p))
         /\ WF_vars(RecentReceive(p))
         /\ WF_vars(PutOk(p) \/ PutFail(p))
         /\ WF_vars(AfterUserAppend(p))
         /\ WF_vars(\E o \in ExtractOutcomes : ExtractDone(p, o))
         /\ WF_vars(\E o \in AiOutcomes : GenerateDone(p, o))
         /\ WF_vars(AfterRecent(p))
         /\ WF_vars(AfterAssistantAppend(p))

SpecLive == Init /\ [][NextLive]_vars /\ Fairness

\* handleChatAPI has answered with a reply or with an error
Completed(p) ==
    /\ turn[p].pc = "returned"
    /\ \/ turn[p].result.status = 200 /\ turn[p].result.reply # <<>>
       \/ turn[p].result.status # 200 /\ turn[p].result.error # <<>>

\* C26: every turn that has started eventually completes: given that each store operation
\* and each collaborator call eventually returns (success or failure) and scheduling is
\* fair, the turn eventually returns a reply or a hard error, whatever other turns run
\* concurrently on the same or on another session.
C26_TurnsComplete ==
    \A p \in Procs : (turn[p].pc # "idle") ~> Completed(p)

\* C26 witness: two turns ran interleaved on one session (the second stored its user entry
\* between the two entries of the first) and both have completed with a reply.
C26_Witness ==
    \E p, q \in Procs :
        /\ p # q /\ turn[p].session = turn[q].session
        /\ Completed(p) /\ Completed(q) /\ Replied(p) /\ Replied(q)
        /\ turn[p].userPos < turn[q].userPos /\ turn[q].userPos < turn[p].assistantPos

----------------------------------------------------------------------------
(* The reply of a successful generation                                    *)

\* the generation call of the turn has returned a text
Generated(t) ==
    t.nGenerate = 1 /\ ~t.collabFailed /\ t.pc \in {"awaitAssistant", "returned"}

\* the append validation never rejects the assistant entry of a turn, and a turn whose
\* generation succeeded and whose store operations all completed their writes has
\* committed its assistant entry and returned the generated reply
GeneratedReplyCommitted ==
    \A p \in Procs :
        LET t == turn[p] IN
        /\ t.assistantStatus # 400
        /\ (Generated(t) /\ t.pc = "returned" /\ ~StorageFailed(t))
             => /\ Replied(p) /\ t.result.reply = t.reply
                /\ Ok([status |-> t.assistantStatus])
                /\ t.assistantPos > 0

\* an append answered 400 leaves the log and the persisted record as they were
RejectedAppendKeepsLog ==
    \A r \in Callers :
        (AppendPush(r) /\ req'[r].resp.status = 400) => UNCHANGED <<entries, stored>>

\* C31 (as claimed): a turn whose generation call succeeds always commits its assistant
\* entry and returns a reply, whatever text generation produced, the empty string
\* included: the append validation never rejects an assistant entry built by the worker,
\* and a rejected append leaves the log unchanged.
C31_GeneratedReplyCommitted ==
    [][RejectedAppendKeepsLog]_vars /\ []GeneratedReplyCommitted
====
